---- MODULE Spec2Model ----
(***************************************************************************)
(* Task manager server: the in-memory store (server/storage.ts,            *)
(* MemStorage), the authentication routes (server/auth.ts) and the task    *)
(* routes (server/routes.ts).                                              *)
(*                                                                         *)
(* A JSON object is a function from its keys to its values, so that the    *)
(* object spread {...a, ...b} is Merge(a, b).  Values under the keys id,   *)
(* userId and createdAt are integers, values under the other keys are      *)
(* strings; NUM and NULL stand for a JSON number and a JSON null found     *)
(* where the schema expects a string.  A createdAt d >= 0 is a Date; the   *)
(* ISO string a Date d becomes in JSON is written -(d + 1), so that every  *)
(* createdAt is an integer and a Date is never equal to a string.          *)
(*                                                                         *)
(* Every async handler is cut at its awaits: the code up to and including  *)
(* the call whose promise is awaited runs in one step (the bodies of       *)
(* MemStorage's methods contain no await, they run when called), the code  *)
(* after the await runs in a later step.                                   *)
(***************************************************************************)
EXTENDS Integers, Sequences, FiniteSets, TLC

\* ---------------------------------------------------------------- bounds
MaxTasks == 2
MaxUsers == 2

\* ---------------------------------------------------------------- inputs
Sessions == {"s1", "s2"}
Emails == {"ann@x.com", "bob@x.com"}
Passwords == {"password123", "letmein"}
Salts == {"salt"}
Dates == {1}
NUM == "<number>"
NULL == "<null>"

RegisterBodies ==
  { [name |-> "Ann", email |-> e, password |-> "password123"] : e \in Emails }

LoginBodies ==
  { [email |-> e, password |-> p] : e \in Emails, p \in Passwords }

\* a body with only a title, one without a title, one carrying a userId
PostBodies ==
  { [title |-> "Buy milk"],
    [status |-> "pending"],
    [title |-> "Buy milk", userId |-> 2] }

\* a body with only a status, one with only a title, one carrying a userId
PutBodies ==
  { [status |-> "completed"],
    [title |-> "t2"],
    [title |-> "t2", userId |-> 2] }

\* req.params.id, as the sequence of its characters
IdParams == { <<"1">>, <<"2">> }

\* bodies with an empty title and with a status outside pending / completed
OddPostBodies ==
  { [title |-> ""],
    [title |-> "Buy milk", status |-> "archived"] }

\* the same for PUT, the body also carrying a createdAt (a JSON value, never a
\* Date) and an id
OddPutBodies ==
  { [title |-> "", status |-> "archived", createdAt |-> 0, id |-> 2] }

\* a well-formed registration body and one without a name
OddRegisterBodies ==
  { [name |-> "Ann", email |-> "ann@x.com", password |-> "password123"],
    [email |-> "bob@x.com", password |-> "password123"] }

\* the first task of a new user
NewTaskBodies == { [title |-> "Buy milk"] }

\* an edit of the title
HomePutBodies == { [title |-> "t2"] }

Filters == {"all", "pending", "completed"}

\* a numeric id, a non-numeric one, one with a numeric prefix
OddIdParams == { <<"1">>, <<"a">>, <<"1", "a">> }

\* ---------------------------------------------------------------- state
VARIABLES
  users,          \* MemStorage.users: Map<number, User>
  currentUserId,  \* MemStorage.currentUserId
  tasks,          \* MemStorage.tasks: Map<number, Task>
  currentTaskId,  \* MemStorage.currentTaskId
  session,        \* the session store: session -> serialized user id, 0 when none
  req,            \* per session, the request in flight or the last response
  home            \* per session, the client's home page: query data, filter, list shown

vars == <<users, currentUserId, tasks, currentTaskId, session, req, home>>

\* ---------------------------------------------------------------- JS helpers
\* {...a, ...b}
Merge(a, b) ==
  [k \in (DOMAIN a) \cup (DOMAIN b) |-> IF k \in DOMAIN b THEN b[k] ELSE a[k]]

\* Map.set(k, v)
MapSet(m, k, v) ==
  [j \in (DOMAIN m) \cup {k} |-> IF j = k THEN v ELSE m[j]]

\* Map.delete(k)
MapDelete(m, k) ==
  [j \in (DOMAIN m) \ {k} |-> m[j]]

Digits == <<"0", "1", "2", "3", "4", "5", "6", "7", "8", "9">>

IsDigit(c) == \E i \in 1..10 : Digits[i] = c

DigitVal(c) == (CHOOSE i \in 1..10 : Digits[i] = c) - 1

\* length of the longest prefix of p made of decimal digits
RECURSIVE DigitPrefix(_)
DigitPrefix(p) ==
  IF p = <<>> \/ ~IsDigit(Head(p)) THEN 0 ELSE 1 + DigitPrefix(Tail(p))

RECURSIVE DigitsValue(_, _)
DigitsValue(p, n) ==
  IF n = 0 THEN 0 ELSE 10 * DigitsValue(p, n - 1) + DigitVal(p[n])

\* parseInt(string): the value of the leading decimal digits, NaN when there are none
parseInt(p) ==
  LET n == DigitPrefix(p)
  IN  [nan |-> n = 0, val |-> DigitsValue(p, n)]

IsString(v) == v \notin {NUM, NULL}

\* ---------------------------------------------------------------- shared/schema.ts
\* createInsertSchema(tasks).pick({title, description, status, userId}).safeParse(x).success:
\* title is notNull without default (required string), description is nullable
\* (optional, string or null), status is notNull with default (optional string),
\* userId is a serial (optional number); unknown keys are not an error.
insertTaskSchema_noTitle(x) ==
  /\ "title" \in DOMAIN x => IsString(x.title)
  /\ "description" \in DOMAIN x => x.description # NUM
  /\ "status" \in DOMAIN x => IsString(x.status)
  /\ "userId" \in DOMAIN x => x.userId \in Int

insertTaskSchema(x) ==
  /\ "title" \in DOMAIN x /\ IsString(x.title)
  /\ "description" \in DOMAIN x => x.description # NUM
  /\ "status" \in DOMAIN x => IsString(x.status)
  /\ "userId" \in DOMAIN x => x.userId \in Int

\* createInsertSchema(tasks).pick({title, description, status}).safeParse(x).success
updateTaskSchema(x) ==
  /\ "title" \in DOMAIN x /\ IsString(x.title)
  /\ "description" \in DOMAIN x => x.description # NUM
  /\ "status" \in DOMAIN x => IsString(x.status)

\* ---------------------------------------------------------------- server/storage.ts
\* The Map iterates in insertion order; keys are inserted in increasing order
\* and Map.set on a present key keeps its position.
RECURSIVE InKeyOrder(_, _)
InKeyOrder(m, ks) ==
  IF ks = {} THEN <<>>
  ELSE LET k == CHOOSE j \in ks : \A i \in ks : j <= i
       IN  <<m[k]>> \o InKeyOrder(m, ks \ {k})

getUser(us, id) ==
  IF id \in DOMAIN us THEN <<us[id]>> ELSE <<>>

\* the loop comparing user.name instead of user.email
getUserByEmail_byName(us, email) ==
  LET hits == { k \in DOMAIN us : us[k].name = email }
  IN  IF hits = {} THEN <<>>
      ELSE <<us[CHOOSE k \in hits : \A j \in hits : k <= j]>>

getUserByEmail(us, email) ==
  LET hits == { k \in DOMAIN us : us[k].email = email }
  IN  IF hits = {} THEN <<>>
      ELSE <<us[CHOOSE k \in hits : \A j \in hits : k <= j]>>

createUser(us, cur, insertUser) ==
  LET user == Merge(insertUser, [id |-> cur])
  IN  [users |-> MapSet(us, cur, user), currentUserId |-> cur + 1, ret |-> user]

\* the loop without its test of task.userId
getTasksByUserId_all(ts, userId) ==
  InKeyOrder(ts, DOMAIN ts)

getTasksByUserId(ts, userId) ==
  InKeyOrder(ts, { k \in DOMAIN ts : ts[k].userId = userId })

getTaskById(ts, id) ==
  IF id \in DOMAIN ts THEN <<ts[id]>> ELSE <<>>

\* the id taken from the size of the map instead of the counter
createTask_sizePlusOne(ts, cur, insertTask, createdAt) ==
  LET id == Cardinality(DOMAIN ts) + 1
      task == Merge(insertTask, [id |-> id, createdAt |-> createdAt])
  IN  [tasks |-> MapSet(ts, id, task), currentTaskId |-> id + 1, ret |-> task]

createTask(ts, cur, insertTask, createdAt) ==
  LET task == Merge(insertTask, [id |-> cur, createdAt |-> createdAt])
  IN  [tasks |-> MapSet(ts, cur, task), currentTaskId |-> cur + 1, ret |-> task]

\* updateTask storing the merged record whether or not the id is there
updateTask_upsert(ts, id, taskData) ==
  LET updatedTask == IF id \in DOMAIN ts THEN Merge(ts[id], taskData)
                     ELSE Merge([id |-> id], taskData)
  IN  [tasks |-> MapSet(ts, id, updatedTask), threw |-> FALSE, ret |-> <<updatedTask>>]

\* throws "Task not found" when the id is absent
updateTask(ts, id, taskData) ==
  IF id \notin DOMAIN ts
  THEN [tasks |-> ts, threw |-> TRUE, ret |-> <<>>]
  ELSE LET updatedTask == Merge(ts[id], taskData)
       IN  [tasks |-> MapSet(ts, id, updatedTask), threw |-> FALSE, ret |-> <<updatedTask>>]

\* a delete that empties the map
deleteTask_clear(ts, id) ==
  [tasks |-> <<>>, threw |-> FALSE]

\* a delete that throws when the id is absent, as updateTask does
deleteTask_throwsIfAbsent(ts, id) ==
  [tasks |-> MapDelete(ts, id), threw |-> id \notin DOMAIN ts]

\* Map.delete of an absent key is a no-op: deleteTask never throws
deleteTask(ts, id) ==
  [tasks |-> MapDelete(ts, id), threw |-> FALSE]

\* ---------------------------------------------------------------- client/src/pages/home-page.tsx
\* the list without the filter applied
filteredTasks_all(data, filterStatus) ==
  IF data = <<>> THEN <<>> ELSE data[1]

\* tasks?.filter(task => filterStatus === "all" || task.status === filterStatus) || [];
\* the query data is <<>> while undefined and <<list>> once fetched
filteredTasks(data, filterStatus) ==
  IF data = <<>> THEN <<>>
  ELSE SelectSeq(data[1], LAMBDA task :
         \/ filterStatus = "all"
         \/ "status" \in DOMAIN task /\ task.status = filterStatus)

\* the page before its query has resolved: useState("all"), data undefined
NoHome == [data |-> <<>>, filterStatus |-> "all", shown |-> <<>>]

\* ---------------------------------------------------------------- requests
Idle ==
  [pc |-> "idle", kind |-> "", param |-> <<>>, body |-> <<>>, user |-> 0,
   found |-> <<>>, result |-> <<>>, err |-> FALSE,
   status |-> 0, out |-> <<>>, msg |-> ""]

Free(s) == req[s].pc \in {"idle", "done"}

\* a request of the given kind received on a session, nothing done yet
Fresh(kind, param, body, user) ==
  [Idle EXCEPT !.kind = kind, !.param = param, !.body = body, !.user = user]

\* res.status(status).json(out) / .send() ends the request
Reply(r, status, out, msg) ==
  [r EXCEPT !.pc = "done", !.status = status, !.out = out, !.msg = msg,
            !.found = <<>>, !.result = <<>>, !.err = FALSE]

\* the middleware letting every request through
isAuthenticated_always(s) == TRUE

\* req.isAuthenticated(): passport's deserializeUser found the session's user
isAuthenticated(s) == getUser(users, session[s]) # <<>>

Unauthorized(s, kind, param, body) ==
  /\ req' = [req EXCEPT ![s] = Reply(Fresh(kind, param, body, 0), 401, <<>>, "Unauthorized")]
  /\ UNCHANGED <<users, currentUserId, tasks, currentTaskId, session>>

\* the guard without its test of task.userId
Guard_noOwnerCheck(found, userId) ==
  IF found = <<>> THEN 404 ELSE 0

\* the guard without its test of the task being there
Guard_absentPasses(found, userId) ==
  IF found # <<>> /\ found[1].userId # userId THEN 403 ELSE 0

\* the ownership guard shared by GET, PUT and DELETE /api/tasks/:id:
\* 404 when the task is absent, 403 when it is another user's, 0 to go on
Guard(found, userId) ==
  IF found = <<>> THEN 404
  ELSE IF found[1].userId # userId THEN 403
  ELSE 0

GuardMsg(code) == IF code = 404 THEN "Task not found" ELSE "Forbidden"

\* ---------------------------------------------------------------- server/auth.ts
\* crypto.scrypt, as an injective function of password and salt
scrypt(password, salt) == <<password, salt>>

\* hashPassword: `${hash}.${salt}` with a fresh random salt
hashPassword(password, salt) == [hashed |-> scrypt(password, salt), salt |-> salt]

\* a comparison that accepts every password
comparePasswords_alwaysTrue(supplied, stored) == TRUE

\* comparePasswords: split the stored value, hash the supplied one with its salt
comparePasswords(supplied, stored) == scrypt(supplied, stored.salt) = stored.hashed

\* POST /api/register, up to the await of getUserByEmail
Register(s, body) ==
  /\ Free(s)
  /\ req' = [req EXCEPT ![s] =
        [Fresh("POST /api/register", <<>>, body, session[s]) EXCEPT
            !.pc = "register_check", !.found = getUserByEmail(users, body.email)]]
  /\ UNCHANGED <<users, currentUserId, tasks, currentTaskId, session>>
  /\ UNCHANGED home

\* if (existingUser) 400; else hashPassword is called and awaited
RegisterCheck(s, salt) ==
  /\ req[s].pc = "register_check"
  /\ LET r == req[s]
     IN  req' = [req EXCEPT ![s] =
            IF r.found # <<>> THEN Reply(r, 400, <<>>, "Email already in use")
            ELSE [r EXCEPT !.pc = "register_create", !.found = <<>>,
                           !.result = <<hashPassword(r.body.password, salt)>>]]
  /\ UNCHANGED <<users, currentUserId, tasks, currentTaskId, session>>
  /\ UNCHANGED home

\* storage.createUser({...req.body, password: hash}), awaited
RegisterCreate(s) ==
  /\ req[s].pc = "register_create"
  /\ currentUserId <= MaxUsers
  /\ LET r == req[s]
         c == createUser(users, currentUserId, Merge(r.body, [password |-> r.result[1]]))
     IN  /\ users' = c.users
         /\ currentUserId' = c.currentUserId
         /\ req' = [req EXCEPT ![s] = [r EXCEPT !.pc = "register_login", !.result = <<c.ret>>]]
  /\ UNCHANGED <<tasks, currentTaskId, session>>
  /\ UNCHANGED home

\* the registration answering 201 without logging the user in
RegisterLogin_noLogin(s) ==
  /\ req[s].pc = "register_login"
  /\ req' = [req EXCEPT ![s] = Reply(req[s], 201, req[s].result, "")]
  /\ UNCHANGED <<users, currentUserId, tasks, currentTaskId, session, home>>

\* req.login(user, ...) stores serializeUser(user) in the session; 201 with the user
RegisterLogin(s) ==
  /\ req[s].pc = "register_login"
  /\ session' = [session EXCEPT ![s] = req[s].result[1].id]
  /\ req' = [req EXCEPT ![s] = Reply(req[s], 201, req[s].result, "")]
  /\ UNCHANGED <<users, currentUserId, tasks, currentTaskId>>
  /\ UNCHANGED home

\* POST /api/login: the LocalStrategy's verify callback up to the await of getUserByEmail
Login(s, body) ==
  /\ Free(s)
  /\ req' = [req EXCEPT ![s] =
        [Fresh("POST /api/login", <<>>, body, session[s]) EXCEPT
            !.pc = "login_verify", !.found = getUserByEmail(users, body.email)]]
  /\ UNCHANGED <<users, currentUserId, tasks, currentTaskId, session>>
  /\ UNCHANGED home

\* !user fails at once (passport answers 401); otherwise comparePasswords is awaited
LoginVerify(s) ==
  /\ req[s].pc = "login_verify"
  /\ LET r == req[s]
     IN  req' = [req EXCEPT ![s] =
            IF r.found = <<>> THEN Reply(r, 401, <<>>, "Unauthorized")
            ELSE [r EXCEPT !.pc = "login_finish",
                           !.err = ~comparePasswords(r.body.password, r.found[1].password)]]
  /\ UNCHANGED <<users, currentUserId, tasks, currentTaskId, session>>
  /\ UNCHANGED home

\* done(null, false) fails with 401; done(null, user) logs in, the route sends 200 and req.user
LoginFinish(s) ==
  /\ req[s].pc = "login_finish"
  /\ LET r == req[s]
     IN  IF r.err
         THEN /\ req' = [req EXCEPT ![s] = Reply(r, 401, <<>>, "Unauthorized")]
              /\ session' = session
         ELSE /\ session' = [session EXCEPT ![s] = r.found[1].id]
              /\ req' = [req EXCEPT ![s] = Reply(r, 200, r.found, "")]
  /\ UNCHANGED <<users, currentUserId, tasks, currentTaskId>>
  /\ UNCHANGED home

\* a logout that answers 200 and leaves the session's user in place
Logout_keepSession(s) ==
  /\ Free(s)
  /\ req' = [req EXCEPT ![s] = Reply(Fresh("POST /api/logout", <<>>, <<>>, session[s]), 200, <<>>, "OK")]
  /\ UNCHANGED <<users, currentUserId, tasks, currentTaskId, session>>
  /\ UNCHANGED home

\* POST /api/logout: req.logout(...), sendStatus(200)
Logout(s) ==
  /\ Free(s)
  /\ session' = [session EXCEPT ![s] = 0]
  /\ req' = [req EXCEPT ![s] = Reply(Fresh("POST /api/logout", <<>>, <<>>, session[s]), 200, <<>>, "OK")]
  /\ UNCHANGED <<users, currentUserId, tasks, currentTaskId>>
  /\ UNCHANGED home

\* GET /api/user
GetUser(s) ==
  /\ Free(s)
  /\ req' = [req EXCEPT ![s] =
        IF ~isAuthenticated(s)
        THEN Reply(Fresh("GET /api/user", <<>>, <<>>, 0), 401, <<>>, "Unauthorized")
        ELSE Reply(Fresh("GET /api/user", <<>>, <<>>, session[s]), 200,
                   getUser(users, session[s]), "")]
  /\ UNCHANGED <<users, currentUserId, tasks, currentTaskId, session>>
  /\ UNCHANGED home

\* ---------------------------------------------------------------- server/routes.ts
\* GET /api/tasks, up to the await of getTasksByUserId
GetTasks(s) ==
  /\ Free(s)
  /\ IF ~isAuthenticated(s) THEN Unauthorized(s, "GET /api/tasks", <<>>, <<>>)
     ELSE LET userId == session[s]
              r == Fresh("GET /api/tasks", <<>>, <<>>, userId)
          IN  /\ req' = [req EXCEPT ![s] =
                    [r EXCEPT !.pc = "getTasks_respond",
                              !.result = getTasksByUserId(tasks, userId)]]
              /\ UNCHANGED <<users, currentUserId, tasks, currentTaskId, session>>
  /\ UNCHANGED home

\* res.json(tasks)
GetTasksRespond(s) ==
  /\ req[s].pc = "getTasks_respond"
  /\ req' = [req EXCEPT ![s] = Reply(req[s], 200, req[s].result, "")]
  /\ UNCHANGED <<users, currentUserId, tasks, currentTaskId, session>>
  /\ UNCHANGED home

\* the spread written after userId: { userId, ...req.body }
taskData_bodyWins(body, userId) == Merge([userId |-> userId], body)

\* const taskData = { ...req.body, userId }
taskData(body, userId) == Merge(body, [userId |-> userId])

\* POST /api/tasks, up to the await of createTask
PostTask(s, body, now) ==
  /\ Free(s)
  /\ IF ~isAuthenticated(s) THEN Unauthorized(s, "POST /api/tasks", <<>>, body)
     ELSE LET userId == session[s]
              r == Fresh("POST /api/tasks", <<>>, body, userId)
              data == taskData(body, userId)
          IN  IF ~insertTaskSchema(data)
              THEN /\ req' = [req EXCEPT ![s] = Reply(r, 400, <<>>, "Invalid task data")]
                   /\ UNCHANGED <<users, currentUserId, tasks, currentTaskId, session>>
              ELSE LET c == createTask(tasks, currentTaskId, data, now)
                   IN  /\ currentTaskId <= MaxTasks
                       /\ tasks' = c.tasks
                       /\ currentTaskId' = c.currentTaskId
                       /\ req' = [req EXCEPT ![s] =
                             [r EXCEPT !.pc = "post_respond", !.result = <<c.ret>>]]
                       /\ UNCHANGED <<users, currentUserId, session>>
  /\ UNCHANGED home

\* res.status(201).json(task)
PostTaskRespond(s) ==
  /\ req[s].pc = "post_respond"
  /\ req' = [req EXCEPT ![s] = Reply(req[s], 201, req[s].result, "")]
  /\ UNCHANGED <<users, currentUserId, tasks, currentTaskId, session>>
  /\ UNCHANGED home

\* the part GET, PUT and DELETE /api/tasks/:id share, up to the await of
\* getTaskById: parseInt, isNaN, for PUT the validation of the body, the lookup
ByIdStart(s, kind, param, body, next) ==
  /\ Free(s)
  /\ UNCHANGED <<users, currentUserId, tasks, currentTaskId, session>>
  /\ IF ~isAuthenticated(s)
     THEN req' = [req EXCEPT ![s] = Reply(Fresh(kind, param, body, 0), 401, <<>>, "Unauthorized")]
     ELSE LET userId == session[s]
              r == Fresh(kind, param, body, userId)
              taskId == parseInt(param)
          IN  IF taskId.nan
              THEN req' = [req EXCEPT ![s] = Reply(r, 400, <<>>, "Invalid task ID")]
              ELSE IF kind = "PUT /api/tasks/:id" /\ ~updateTaskSchema(body)
              THEN req' = [req EXCEPT ![s] = Reply(r, 400, <<>>, "Invalid task data")]
              ELSE req' = [req EXCEPT ![s] =
                      [r EXCEPT !.pc = next, !.found = getTaskById(tasks, taskId.val)]]
  /\ UNCHANGED home

GetTask(s, param) ==
  ByIdStart(s, "GET /api/tasks/:id", param, <<>>, "get_check")

\* after the lookup: 404, 403 or res.json(task)
GetTaskCheck(s) ==
  /\ req[s].pc = "get_check"
  /\ LET r == req[s]
         code == Guard(r.found, r.user)
     IN  req' = [req EXCEPT ![s] =
            IF code # 0 THEN Reply(r, code, <<>>, GuardMsg(code))
            ELSE Reply(r, 200, r.found, "")]
  /\ UNCHANGED <<users, currentUserId, tasks, currentTaskId, session>>
  /\ UNCHANGED home

PutTask(s, param, body) ==
  ByIdStart(s, "PUT /api/tasks/:id", param, body, "put_check")

\* the handler merging the body into the record it looked up and storing that
PutTaskCheck_mergeFound(s) ==
  /\ req[s].pc = "put_check"
  /\ LET r == req[s]
         code == Guard(r.found, r.user)
         id == parseInt(r.param).val
         updatedTask == Merge(r.found[1], r.body)
     IN  IF code # 0
         THEN /\ req' = [req EXCEPT ![s] = Reply(r, code, <<>>, GuardMsg(code))]
              /\ tasks' = tasks
         ELSE /\ tasks' = IF id \in DOMAIN tasks THEN MapSet(tasks, id, updatedTask) ELSE tasks
              /\ req' = [req EXCEPT ![s] =
                    [r EXCEPT !.pc = "put_respond", !.found = <<>>,
                              !.result = <<updatedTask>>, !.err = id \notin DOMAIN tasks]]
  /\ UNCHANGED <<users, currentUserId, currentTaskId, session, home>>

\* after the lookup: 404, 403 or storage.updateTask(taskId, req.body), awaited
PutTaskCheck(s) ==
  /\ req[s].pc = "put_check"
  /\ LET r == req[s]
         code == Guard(r.found, r.user)
         u == updateTask(tasks, parseInt(r.param).val, r.body)
     IN  IF code # 0
         THEN /\ req' = [req EXCEPT ![s] = Reply(r, code, <<>>, GuardMsg(code))]
              /\ tasks' = tasks
         ELSE /\ tasks' = u.tasks
              /\ req' = [req EXCEPT ![s] =
                    [r EXCEPT !.pc = "put_respond", !.found = <<>>,
                              !.result = u.ret, !.err = u.threw]]
  /\ UNCHANGED <<users, currentUserId, currentTaskId, session>>
  /\ UNCHANGED home

\* res.json(updatedTask), or the catch block when updateTask threw
PutTaskRespond(s) ==
  /\ req[s].pc = "put_respond"
  /\ req' = [req EXCEPT ![s] =
        IF req[s].err THEN Reply(req[s], 500, <<>>, "Failed to update task")
        ELSE Reply(req[s], 200, req[s].result, "")]
  /\ UNCHANGED <<users, currentUserId, tasks, currentTaskId, session>>
  /\ UNCHANGED home

DeleteTask(s, param) ==
  ByIdStart(s, "DELETE /api/tasks/:id", param, <<>>, "delete_check")

\* after the lookup: 404, 403 or storage.deleteTask(taskId), awaited
DeleteTaskCheck(s) ==
  /\ req[s].pc = "delete_check"
  /\ LET r == req[s]
         code == Guard(r.found, r.user)
     IN  IF code # 0
         THEN /\ req' = [req EXCEPT ![s] = Reply(r, code, <<>>, GuardMsg(code))]
              /\ tasks' = tasks
         ELSE LET d == deleteTask(tasks, parseInt(r.param).val)
              IN  /\ tasks' = d.tasks
                  /\ req' = [req EXCEPT ![s] =
                        [r EXCEPT !.pc = "delete_respond", !.found = <<>>, !.err = d.threw]]
  /\ UNCHANGED <<users, currentUserId, currentTaskId, session>>
  /\ UNCHANGED home

\* res.status(204).send(), or the catch block had deleteTask thrown
DeleteTaskRespond(s) ==
  /\ req[s].pc = "delete_respond"
  /\ req' = [req EXCEPT ![s] =
        IF req[s].err THEN Reply(req[s], 500, <<>>, "Failed to delete task")
        ELSE Reply(req[s], 204, <<>>, "")]
  /\ UNCHANGED <<users, currentUserId, tasks, currentTaskId, session>>
  /\ UNCHANGED home

\* ---------------------------------------------------------------- client/src/pages/home-page.tsx
\* Date.prototype.toJSON
toISOString(d) == -(d + 1)

\* JSON.parse(JSON.stringify(task)): a Date becomes its ISO string
jsonTask(task) ==
  IF "createdAt" \in DOMAIN task /\ task.createdAt >= 0
  THEN [task EXCEPT !.createdAt = toISOString(@)]
  ELSE task

\* `${taskId}`
RECURSIVE toString(_)
toString(n) ==
  IF n < 10 THEN <<Digits[n + 1]>> ELSE toString(n \div 10) \o <<Digits[(n % 10) + 1]>>

\* the component renders: filteredTasks is computed from the query data and the filter
render(h) == [h EXCEPT !.shown = filteredTasks(h.data, h.filterStatus)]

\* the useQuery of ["/api/tasks"] resolves with the body of a 200 response
HomeFetched(s) ==
  /\ req[s].pc = "done" /\ req[s].kind = "GET /api/tasks" /\ req[s].status = 200
  /\ home' = [home EXCEPT ![s] =
        render([@ EXCEPT !.data = <<[i \in DOMAIN req[s].out |-> jsonTask(req[s].out[i])]>>])]
  /\ UNCHANGED <<users, currentUserId, tasks, currentTaskId, session, req>>

\* Filters' onFilterChange: setFilterStatus
setFilterStatus(s, filterStatus) ==
  /\ home' = [home EXCEPT ![s] = render([@ EXCEPT !.filterStatus = filterStatus])]
  /\ UNCHANGED <<users, currentUserId, tasks, currentTaskId, session, req>>

\* handleToggleStatus(task) on the i-th task shown: PUT of { ...task, status: newStatus }
handleToggleStatus(s, i) ==
  /\ i \in DOMAIN home[s].shown
  /\ LET task == home[s].shown[i]
         newStatus == IF "status" \in DOMAIN task /\ task.status = "pending"
                      THEN "completed" ELSE "pending"
     IN  PutTask(s, toString(task.id), Merge(task, [status |-> newStatus]))

\* ---------------------------------------------------------------- specifications
\* the store after two registrations
TwoUsers ==
  createUser(createUser(<<>>, 1,
      [name |-> "Ann", email |-> "ann@x.com", password |-> hashPassword("password123", "salt")]).users, 2,
      [name |-> "Bob", email |-> "bob@x.com", password |-> hashPassword("password123", "salt")])

InitTasks ==
  /\ users = TwoUsers.users
  /\ currentUserId = TwoUsers.currentUserId
  /\ tasks = <<>>
  /\ currentTaskId = 1
  /\ session \in { f \in [Sessions -> 0..2] : f["s1"] = 1 }
  /\ req = [s \in Sessions |-> Idle]
  /\ home = [s \in Sessions |-> NoHome]

NextTasks ==
  \/ \E s \in Sessions : GetTasks(s)
  \/ \E s \in Sessions : GetTasksRespond(s)
  \/ \E s \in Sessions, body \in PostBodies, now \in Dates : PostTask(s, body, now)
  \/ \E s \in Sessions : PostTaskRespond(s)
  \/ \E s \in Sessions, param \in IdParams : GetTask(s, param)
  \/ \E s \in Sessions : GetTaskCheck(s)
  \/ \E s \in Sessions, param \in IdParams, body \in PutBodies : PutTask(s, param, body)
  \/ \E s \in Sessions : PutTaskCheck(s)
  \/ \E s \in Sessions : PutTaskRespond(s)
  \/ \E s \in Sessions, param \in IdParams : DeleteTask(s, param)
  \/ \E s \in Sessions : DeleteTaskCheck(s)
  \/ \E s \in Sessions : DeleteTaskRespond(s)

SpecTasks == InitTasks /\ [][NextTasks]_vars

\* the state after construction: new MemStorage(), no session
InitAuth ==
  /\ users = <<>>
  /\ currentUserId = 1
  /\ tasks = <<>>
  /\ currentTaskId = 1
  /\ session = [s \in Sessions |-> 0]
  /\ req = [s \in Sessions |-> Idle]
  /\ home = [s \in Sessions |-> NoHome]

NextAuth ==
  \/ \E s \in Sessions, body \in RegisterBodies : Register(s, body)
  \/ \E s \in Sessions, salt \in Salts : RegisterCheck(s, salt)
  \/ \E s \in Sessions : RegisterCreate(s)
  \/ \E s \in Sessions : RegisterLogin(s)
  \/ \E s \in Sessions, body \in LoginBodies : Login(s, body)
  \/ \E s \in Sessions : LoginVerify(s)
  \/ \E s \in Sessions : LoginFinish(s)
  \/ \E s \in Sessions : Logout(s)
  \/ \E s \in Sessions : GetUser(s)

SpecAuth == InitAuth /\ [][NextAuth]_vars

\* the task routes and GET /api/user on inputs a well-behaved client never sends
NextInputs ==
  \/ \E s \in Sessions : GetUser(s)
  \/ \E s \in Sessions : GetTasks(s)
  \/ \E s \in Sessions : GetTasksRespond(s)
  \/ \E s \in Sessions, body \in OddPostBodies, now \in Dates : PostTask(s, body, now)
  \/ \E s \in Sessions : PostTaskRespond(s)
  \/ \E s \in Sessions, param \in OddIdParams : GetTask(s, param)
  \/ \E s \in Sessions : GetTaskCheck(s)
  \/ \E s \in Sessions, param \in OddIdParams, body \in OddPutBodies : PutTask(s, param, body)
  \/ \E s \in Sessions : PutTaskCheck(s)
  \/ \E s \in Sessions : PutTaskRespond(s)
  \/ \E s \in Sessions, param \in OddIdParams : DeleteTask(s, param)
  \/ \E s \in Sessions : DeleteTaskCheck(s)
  \/ \E s \in Sessions : DeleteTaskRespond(s)

SpecInputs == InitTasks /\ [][NextInputs]_vars

\* the authentication routes with the routes that require a session
NextSession ==
  \/ NextAuth
  \/ \E s \in Sessions : GetTasks(s)
  \/ \E s \in Sessions : GetTasksRespond(s)

SpecSession == InitAuth /\ [][NextSession]_vars

\* registration on well-formed and on incomplete bodies, followed by the
\* requests of a freshly registered session
NextRegister ==
  \/ \E s \in Sessions, body \in OddRegisterBodies : Register(s, body)
  \/ \E s \in Sessions, salt \in Salts : RegisterCheck(s, salt)
  \/ \E s \in Sessions : RegisterCreate(s)
  \/ \E s \in Sessions : RegisterLogin(s)
  \/ \E s \in Sessions : GetUser(s)
  \/ \E s \in Sessions, body \in NewTaskBodies, now \in Dates : PostTask(s, body, now)
  \/ \E s \in Sessions : PostTaskRespond(s)

SpecRegister == InitAuth /\ [][NextRegister]_vars

\* user 1 has created a pending and a completed task and is logged in on both
\* sessions: s1 is a browser on the home page, s2 another client of the user
TwoTasks ==
  createTask(createTask(<<>>, 1,
      taskData([title |-> "Buy milk", status |-> "pending"], 1), 1).tasks, 2,
      taskData([title |-> "Write report", status |-> "completed"], 1), 1)

InitHome ==
  /\ users = TwoUsers.users
  /\ currentUserId = TwoUsers.currentUserId
  /\ tasks = TwoTasks.tasks
  /\ currentTaskId = TwoTasks.currentTaskId
  /\ session = [s \in Sessions |-> 1]
  /\ req = [s \in Sessions |-> Idle]
  /\ home = [s \in Sessions |-> NoHome]

\* the home page of s1 over the task routes it uses, and edits of titles by s2
NextHome ==
  \/ GetTasks("s1")
  \/ GetTasksRespond("s1")
  \/ HomeFetched("s1")
  \/ \E filterStatus \in Filters : setFilterStatus("s1", filterStatus)
  \/ \E i \in 1..Len(InKeyOrder(TwoTasks.tasks, DOMAIN TwoTasks.tasks)) : handleToggleStatus("s1", i)
  \/ \E param \in IdParams, body \in HomePutBodies : PutTask("s2", param, body)
  \/ \E s \in Sessions : PutTaskCheck(s)
  \/ \E s \in Sessions : PutTaskRespond(s)

SpecHome == InitHome /\ [][NextHome]_vars

\* ---------------------------------------------------------------- properties
ByIdKinds == {"GET /api/tasks/:id", "PUT /api/tasks/:id", "DELETE /api/tasks/:id"}

CheckPcs == {"get_check", "put_check", "delete_check"}

\* session s receives a request in this step
Starts(s) == Free(s) /\ req'[s] # req[s] /\ req'[s].kind # ""

\* session s receives, authenticated as someone else than the owner, a by-id
\* request whose id names a stored task
StartsOnForeignTask(s) ==
  /\ Starts(s)
  /\ req'[s].kind \in ByIdKinds
  /\ session[s] # 0
  /\ ~parseInt(req'[s].param).nan
  /\ parseInt(req'[s].param).val \in DOMAIN tasks
  /\ tasks[parseInt(req'[s].param).val].userId # session[s]

\* the handler of session s resumes after having looked up another user's task
ResumesOnForeignTask(s) ==
  /\ req[s].pc \in CheckPcs
  /\ req'[s] # req[s]
  /\ req[s].found # <<>>
  /\ req[s].found[1].userId # req[s].user

Refused(r, statuses) ==
  r.pc = "done" /\ r.status \in statuses /\ r.out = <<>>

C2_UserIdImmutable ==
  [][\A k \in (DOMAIN tasks) \cap (DOMAIN tasks') : tasks'[k].userId = tasks[k].userId]_vars

\* C3: a task stored by POST /api/tasks has the userId of the authenticated
\* requester, whatever the body says.
C3_CreatedTaskOwnedByRequester ==
  [][\A k \in (DOMAIN tasks') \ (DOMAIN tasks) :
       \E s \in Sessions :
         /\ Starts(s)
         /\ req'[s].kind = "POST /api/tasks"
         /\ session[s] # 0
         /\ "userId" \in DOMAIN tasks'[k]
         /\ tasks'[k].userId = session[s]
         /\ req'[s].result = <<tasks'[k]>>]_vars

\* a task was created from a body naming another user and belongs to the requester
C3_Witness ==
  \E s \in Sessions :
    /\ req[s].pc = "done" /\ req[s].kind = "POST /api/tasks" /\ req[s].status = 201
    /\ "userId" \in DOMAIN req[s].body
    /\ req[s].body.userId # req[s].user
    /\ req[s].out[1].userId = req[s].user
    /\ req[s].out[1].id \in DOMAIN tasks
    /\ tasks[req[s].out[1].id].userId = req[s].user

\* the tasks the store holds for user u, as a sequence, is exactly seq
ExactlyTasksOf(seq, u) ==
  LET owned == { k \in DOMAIN tasks : tasks[k].userId = u }
  IN  /\ Len(seq) = Cardinality(owned)
      /\ \A k \in owned : \E i \in 1..Len(seq) : seq[i] = tasks[k]
      /\ \A i \in 1..Len(seq) : \E k \in owned : seq[i] = tasks[k]

\* C4: GET /api/tasks answers 200 with exactly the tasks stored for the requester
\* when the handler reads the store: each of them, once, and no other user's.
C4_ListIsRequestersTasks ==
  [][\A s \in Sessions :
       /\ (Starts(s) /\ req'[s].kind = "GET /api/tasks" /\ session[s] # 0) =>
            /\ req'[s].pc = "getTasks_respond"
            /\ ExactlyTasksOf(req'[s].result, session[s])
       /\ (req[s].pc = "getTasks_respond" /\ req'[s] # req[s]) =>
            /\ req'[s].pc = "done"
            /\ req'[s].status = 200
            /\ req'[s].out = req[s].result]_vars

\* a list was returned that holds a task while another user's task is stored
C4_Witness ==
  \E s \in Sessions :
    /\ req[s].pc = "done" /\ req[s].kind = "GET /api/tasks" /\ req[s].status = 200
    /\ req[s].out # <<>>
    /\ ExactlyTasksOf(req[s].out, req[s].user)
    /\ \E k \in DOMAIN tasks : tasks[k].userId # req[s].user

\* C5: every created task gets the value of the id counter, which is at least 1,
\* above every stored id, and advanced past the new id; the counter never goes
\* back, so the id is above every id assigned before and is never assigned again.
C5_TaskIdsIncrease ==
  [][/\ \A k \in (DOMAIN tasks') \ (DOMAIN tasks) :
          /\ k = currentTaskId
          /\ k >= 1
          /\ currentTaskId' = k + 1
          /\ tasks'[k].id = k
          /\ \A j \in DOMAIN tasks : j < k
     /\ currentTaskId' >= currentTaskId
     /\ currentTaskId' # currentTaskId => (DOMAIN tasks') \ (DOMAIN tasks) # {}
     /\ \A j \in DOMAIN tasks' : j < currentTaskId']_vars

\* task 2 was created after task 1 had been deleted
C5_Witness ==
  \E s \in Sessions :
    /\ req[s].pc = "post_respond"
    /\ req[s].result[1].id = 2
    /\ DOMAIN tasks = {2}
    /\ \E t \in Sessions : req[t].pc = "done" /\ req[t].kind = "DELETE /api/tasks/:id"
                           /\ req[t].status = 204 /\ req[t].param = <<"1">>

\* C6 as stated: no two stored users have the same email.
C6_EmailsUnique ==
  \A a \in DOMAIN users : \A b \in DOMAIN users :
    a # b => users[a].email # users[b].email

EmailStored(email) == \E k \in DOMAIN users : users[k].email = email

\* C7: a registration whose email is stored when the handler looks it up is
\* rejected with a 4xx status and changes neither the users, nor the user id
\* counter, nor the session.
C7_DuplicateRegisterRejected ==
  [][\A s \in Sessions :
       /\ (Starts(s) /\ req'[s].kind = "POST /api/register"
             /\ EmailStored(req'[s].body.email)) =>
            /\ users' = users /\ currentUserId' = currentUserId
            /\ req'[s].pc = "register_check"
            /\ req'[s].found # <<>>
       /\ (req[s].pc = "register_check" /\ req'[s] # req[s] /\ req[s].found # <<>>) =>
            /\ users' = users /\ currentUserId' = currentUserId /\ session' = session
            /\ req'[s].pc = "done"
            /\ req'[s].status \in 400..499
            /\ req'[s].out = <<>>]_vars

\* a registration was rejected and the email is stored exactly once
C7_Witness ==
  \E s \in Sessions :
    /\ req[s].pc = "done" /\ req[s].kind = "POST /api/register" /\ req[s].status = 400
    /\ Cardinality({ k \in DOMAIN users : users[k].email = req[s].body.email }) = 1
    /\ currentUserId = Cardinality(DOMAIN users) + 1

\* C8 as stated: a registration whose email is already stored is answered 409.
C8_DuplicateRegister409 ==
  [][\A s \in Sessions :
       (req[s].pc = "register_check" /\ req'[s] # req[s] /\ req[s].found # <<>>) =>
         req'[s].pc = "done" /\ req'[s].status = 409]_vars

\* C9 as stated: a PUT by the owner whose body is a non-empty subset of title,
\* description and status is accepted, replaces exactly the fields it provides
\* and is answered 200 with the stored record.
C9_PartialUpdateAccepted ==
  [][\A s \in Sessions :
       LET id == parseInt(req'[s].param).val
           old == parseInt(req[s].param).val
       IN  /\ ( /\ Starts(s)
                /\ req'[s].kind = "PUT /api/tasks/:id"
                /\ session[s] # 0
                /\ ~parseInt(req'[s].param).nan
                /\ id \in DOMAIN tasks
                /\ tasks[id].userId = session[s]
                /\ DOMAIN req'[s].body # {}
                /\ DOMAIN req'[s].body \subseteq {"title", "description", "status"}
                /\ \A f \in DOMAIN req'[s].body : IsString(req'[s].body[f]) ) =>
                  req'[s].pc = "put_check"
           /\ ( /\ req[s].pc = "put_check"
                /\ req'[s] # req[s]
                /\ old \in DOMAIN tasks
                /\ req[s].found # <<>>
                /\ req[s].found[1].userId = req[s].user ) =>
                  /\ old \in DOMAIN tasks'
                  /\ DOMAIN tasks'[old] = (DOMAIN tasks[old]) \cup (DOMAIN req[s].body)
                  /\ \A f \in DOMAIN tasks'[old] :
                       tasks'[old][f] = IF f \in DOMAIN req[s].body
                                        THEN req[s].body[f] ELSE tasks[old][f]
                  /\ req'[s].result = <<tasks'[old]>>
           /\ (req[s].pc = "put_respond" /\ req'[s] # req[s] /\ ~req[s].err) =>
                  req'[s].status = 200 /\ req'[s].out = req[s].result]_vars

\* C10 as stated: a task created from a body without status and description is
\* stored and read back with status "pending", no description, and a createdAt.
C10_CreateDefaults ==
  [][\A k \in (DOMAIN tasks') \ (DOMAIN tasks) : \A s \in Sessions :
       ( /\ Starts(s)
         /\ req'[s].kind = "POST /api/tasks"
         /\ req'[s].pc = "post_respond"
         /\ "status" \notin DOMAIN req'[s].body
         /\ "description" \notin DOMAIN req'[s].body ) =>
           LET got == getTaskById(tasks', k)
           IN  /\ got # <<>>
               /\ "status" \in DOMAIN got[1]
               /\ got[1].status = "pending"
               /\ "description" \in DOMAIN got[1] => got[1].description = NULL
               /\ "createdAt" \in DOMAIN got[1]]_vars

\* C11 as stated: the status of a stored task is "pending" or "completed".
C11_StatusIsPendingOrCompleted ==
  \A k \in DOMAIN tasks :
    "status" \in DOMAIN tasks[k] => tasks[k].status \in {"pending", "completed"}

AuthRequiredKinds ==
  ByIdKinds \cup {"GET /api/tasks", "POST /api/tasks", "GET /api/user"}

\* C12: a request to a route that requires a session, received on a session
\* without a user, is answered 401 at once, with nothing of the store in the
\* answer, and leaves the tasks and the task id counter unchanged.
C12_Unauthenticated401 ==
  [][\A s \in Sessions :
       (Starts(s) /\ req'[s].kind \in AuthRequiredKinds /\ session[s] = 0) =>
         /\ req'[s].pc = "done"
         /\ req'[s].status = 401
         /\ req'[s].out = <<>>
         /\ tasks' = tasks
         /\ currentTaskId' = currentTaskId]_vars

\* a DELETE of a stored task on a session without a user was answered 401
C12_Witness ==
  \E s \in Sessions :
    /\ session[s] = 0
    /\ req[s].pc = "done" /\ req[s].kind = "DELETE /api/tasks/:id" /\ req[s].status = 401
    /\ ~parseInt(req[s].param).nan
    /\ parseInt(req[s].param).val \in DOMAIN tasks

\* the outcome of looking up the id a by-id request names
Lookup(param) ==
  IF parseInt(param).val \in DOMAIN tasks THEN <<tasks[parseInt(param).val]>> ELSE <<>>

\* C13: a GET, PUT or DELETE by id of an authenticated user, with a numeric id
\* and for PUT a valid body, looks the task up without changing the store; when
\* the lookup found nothing the answer is 404, when it found a task of another
\* user the answer is 403, and in both cases the store is left unchanged; the
\* store's update and delete change the store only in a step of a request whose
\* lookup found a task of the requester.
C13_NotFoundThenForbiddenThenAct ==
  [][/\ \A s \in Sessions :
          /\ (Starts(s) /\ req'[s].kind \in ByIdKinds /\ session[s] # 0
                /\ ~parseInt(req'[s].param).nan
                /\ (req'[s].kind = "PUT /api/tasks/:id" => "title" \in DOMAIN req'[s].body)) =>
               /\ req'[s].pc \in CheckPcs
               /\ req'[s].found = Lookup(req'[s].param)
               /\ req'[s].user = session[s]
               /\ tasks' = tasks
          /\ (req[s].pc \in CheckPcs /\ req'[s] # req[s] /\ req[s].found = <<>>) =>
               /\ Refused(req'[s], {404})
               /\ tasks' = tasks
          /\ (req[s].pc \in CheckPcs /\ req'[s] # req[s] /\ req[s].found # <<>>
                /\ req[s].found[1].userId # req[s].user) =>
               /\ Refused(req'[s], {403})
               /\ tasks' = tasks
     /\ (tasks' # tasks /\ currentTaskId' = currentTaskId) =>
          \E s \in Sessions :
            /\ req[s].pc \in {"put_check", "delete_check"}
            /\ req'[s] # req[s]
            /\ req[s].found # <<>>
            /\ req[s].found[1].userId = req[s].user]_vars

\* one PUT was answered 404 and another 403, and a task is stored
C13_Witness ==
  \E s, t \in Sessions :
    /\ req[s].pc = "done" /\ req[s].kind = "PUT /api/tasks/:id" /\ req[s].status = 404
    /\ req[t].pc = "done" /\ req[t].kind = "PUT /api/tasks/:id" /\ req[t].status = 403
    /\ tasks # <<>>

DeletedIds == (1..(currentTaskId - 1)) \ DOMAIN tasks

\* C15: the step in which the owner's DELETE passes its checks takes the task
\* out of the store and then answers 204; an id that was given out and is no
\* longer stored is never stored again, whatever is created or updated later;
\* a GET by id looking up such an id finds nothing and is answered 404; and a
\* GET /api/tasks lists stored tasks only, so none with such an id.
C15_DeletedStaysDeleted ==
  [][/\ \A k \in DeletedIds : k \notin DOMAIN tasks'
     /\ \A s \in Sessions :
          /\ (req[s].pc = "delete_check" /\ req'[s] # req[s] /\ req[s].found # <<>>
                /\ req[s].found[1].userId = req[s].user) =>
               /\ parseInt(req[s].param).val \notin DOMAIN tasks'
               /\ parseInt(req[s].param).val < currentTaskId'
               /\ req'[s].pc = "delete_respond" /\ ~req'[s].err
          /\ (req[s].pc = "delete_respond" /\ req'[s] # req[s] /\ ~req[s].err) =>
               /\ Refused(req'[s], {204})
               /\ parseInt(req[s].param).val \in DeletedIds
          /\ (Starts(s) /\ req'[s].kind = "GET /api/tasks/:id" /\ session[s] # 0
                /\ ~parseInt(req'[s].param).nan
                /\ parseInt(req'[s].param).val \in DeletedIds) =>
               req'[s].pc = "get_check" /\ req'[s].found = <<>>
          /\ (req[s].pc = "get_check" /\ req'[s] # req[s] /\ req[s].found = <<>>) =>
               Refused(req'[s], {404})
          /\ (Starts(s) /\ req'[s].kind = "GET /api/tasks" /\ session[s] # 0) =>
               \A i \in DOMAIN req'[s].result :
                 /\ req'[s].result[i].id \notin DeletedIds
                 /\ req'[s].result[i] = tasks[req'[s].result[i].id]]_vars

\* a task was deleted with 204, another task was created afterwards and is
\* stored, and a later GET of the deleted id was answered 404
C15_Witness ==
  \E s, t \in Sessions :
    /\ s # t
    /\ req[s].pc = "done" /\ req[s].kind = "DELETE /api/tasks/:id" /\ req[s].status = 204
    /\ req[s].param = <<"1">>
    /\ req[t].pc = "done" /\ req[t].kind = "GET /api/tasks/:id" /\ req[t].status = 404
    /\ req[t].param = <<"1">>
    /\ DOMAIN tasks = {2}

\* C16: on every store the program reaches, deleteTask of an absent id (never
\* given out or already deleted) does not throw and returns the store as it is,
\* and after a deleteTask of any id a second deleteTask of that id does not
\* throw and changes nothing.
C16_DeleteIdempotent ==
  \A id \in 1..currentTaskId :
    LET once == deleteTask(tasks, id)
        twice == deleteTask(once.tasks, id)
    IN  /\ ~once.threw
        /\ id \notin DOMAIN tasks => once.tasks = tasks
        /\ ~twice.threw
        /\ twice.tasks = once.tasks

\* the only task ever created was deleted by two requests, both answered 204
C16_Witness ==
  \E s, t \in Sessions :
    /\ s # t
    /\ currentTaskId = 2 /\ tasks = <<>>
    /\ req[s].pc = "done" /\ req[s].kind = "DELETE /api/tasks/:id" /\ req[s].status = 204
    /\ req[t].pc = "done" /\ req[t].kind = "DELETE /api/tasks/:id" /\ req[t].status = 204

\* the password of a login body is not the one the looked-up user registered with
WrongPassword(r) ==
  /\ r.found # <<>>
  /\ hashPassword(r.body.password, r.found[1].password.salt).hashed
       # r.found[1].password.hashed

\* C17: a login looks the email up; when the email is unknown, and when it is
\* known but the password is wrong, the login ends with the same answer, 401
\* "Unauthorized" without a body, and the session is left as it was.
C17_FailedLoginsAlike ==
  [][\A s \in Sessions :
       /\ (Starts(s) /\ req'[s].kind = "POST /api/login") =>
            /\ req'[s].pc = "login_verify"
            /\ session' = session
            /\ ~EmailStored(req'[s].body.email) => req'[s].found = <<>>
            /\ EmailStored(req'[s].body.email) =>
                 /\ req'[s].found # <<>>
                 /\ req'[s].found[1].email = req'[s].body.email
       /\ (req[s].pc = "login_verify" /\ req'[s] # req[s]) =>
            /\ session' = session
            /\ req[s].found = <<>> =>
                 Refused(req'[s], {401}) /\ req'[s].msg = "Unauthorized"
            /\ req[s].found # <<>> =>
                 /\ req'[s].pc = "login_finish"
                 /\ req'[s].found = req[s].found /\ req'[s].body = req[s].body
       /\ (req[s].pc = "login_finish" /\ req'[s] # req[s] /\ WrongPassword(req[s])) =>
            /\ session' = session
            /\ Refused(req'[s], {401}) /\ req'[s].msg = "Unauthorized"]_vars

\* on two sessions without a user, a login with an unknown email and a login
\* with a registered email and a wrong password were both answered 401
C17_Witness ==
  \E s, t \in Sessions :
    /\ session[s] = 0 /\ session[t] = 0
    /\ req[s].pc = "done" /\ req[s].kind = "POST /api/login" /\ req[s].status = 401
    /\ ~EmailStored(req[s].body.email)
    /\ req[t].pc = "done" /\ req[t].kind = "POST /api/login" /\ req[t].status = 401
    /\ \E k \in DOMAIN users :
         /\ users[k].email = req[t].body.email
         /\ users[k].password.hashed # scrypt(req[t].body.password, users[k].password.salt)
    /\ req[s].out = req[t].out /\ req[s].msg = req[t].msg

\* session s ends a login with success in this step
LoginSucceeds(s) ==
  /\ req[s].pc = "login_finish" /\ req[s].kind = "POST /api/login"
  /\ req'[s].pc = "done" /\ req'[s].status = 200
  /\ req[s].found # <<>>
  /\ session'[s] = req[s].found[1].id

\* session s ends a registration with success in this step
RegisterSucceeds(s) ==
  /\ req[s].pc = "register_login" /\ req[s].kind = "POST /api/register"
  /\ req'[s].pc = "done" /\ req'[s].status = 201
  /\ session'[s] = req'[s].out[1].id

\* session s receives a logout in this step
LogsOut(s) ==
  Starts(s) /\ req'[s].kind = "POST /api/logout"

\* what every request received on a session does with the session's user: a
\* request to a route that requires a session is answered 401 when the session
\* has no user and is otherwise handled as the session's user; a successful
\* login binds the session to the user logged in; a logout answers 200 and
\* leaves the session without a user
RequestsFollowSession(s) ==
  /\ (Starts(s) /\ req'[s].kind \in AuthRequiredKinds /\ session[s] = 0) =>
       Refused(req'[s], {401})
  /\ (Starts(s) /\ req'[s].kind \in AuthRequiredKinds /\ session[s] # 0) =>
       /\ req'[s].user = session[s]
       /\ req'[s].status # 401
       /\ session'[s] = session[s]
  /\ (req[s].pc = "login_finish" /\ req'[s] # req[s] /\ ~WrongPassword(req[s])) =>
       LoginSucceeds(s)
  /\ LogsOut(s) =>
       session'[s] = 0 /\ req'[s].pc = "done" /\ req'[s].status = 200

\* C18 as stated: a session bound to a user by a login stays bound to that user
\* until a logout on it, and a session without a user stays without one until
\* a successful login on it; requests follow the session's user.
C18_SessionUntilLogout ==
  [][\A s \in Sessions :
       /\ (session[s] # 0 /\ session'[s] # session[s]) => LogsOut(s)
       /\ (session[s] = 0 /\ session'[s] # 0) => LoginSucceeds(s)
       /\ RequestsFollowSession(s)]_vars

\* C18 amended: a session bound to a user stays bound to that user until a
\* logout, or another successful login or registration, on it; a session
\* without a user stays without one until a successful login or registration
\* on it; requests follow the session's user.
C18_SessionUntilLogoutLoginOrRegister ==
  [][\A s \in Sessions :
       /\ (session[s] # 0 /\ session'[s] # session[s]) =>
            LogsOut(s) \/ LoginSucceeds(s) \/ RegisterSucceeds(s)
       /\ (session[s] = 0 /\ session'[s] # 0) =>
            LoginSucceeds(s) \/ RegisterSucceeds(s)
       /\ RequestsFollowSession(s)]_vars

\* one session had a user and was logged out; on the other a GET /api/tasks
\* was answered as the session's user
C18_Witness ==
  \E s, t \in Sessions :
    /\ s # t
    /\ session[s] = 0 /\ req[s].pc = "done"
    /\ req[s].kind = "POST /api/logout" /\ req[s].status = 200
    /\ req[s].user # 0
    /\ session[t] # 0 /\ req[t].pc = "done"
    /\ req[t].kind = "GET /api/tasks" /\ req[t].status = 200
    /\ req[t].user = session[t]

\* C19 as stated: as long as a task is stored its createdAt keeps the value it
\* was created with.
C19_CreatedAtImmutable ==
  [][\A k \in (DOMAIN tasks) \cap (DOMAIN tasks') :
       tasks'[k].createdAt = tasks[k].createdAt]_vars

\* C20 as stated: the title of a stored task is not the empty string.
C20_TitleNonEmpty ==
  \A k \in DOMAIN tasks : tasks[k].title # ""

\* C21 as stated: the body of the 201 answer of a registration has no password field.
C21_RegisterAnswerWithoutPassword ==
  \A s \in Sessions :
    (req[s].pc = "done" /\ req[s].kind = "POST /api/register" /\ req[s].status = 201) =>
      \A i \in DOMAIN req[s].out : "password" \notin DOMAIN req[s].out[i]

\* C22 as stated: a registration whose body lacks name, email or password
\* creates no user, leaves the user id counter unchanged and is answered 400.
C22_IncompleteRegister400 ==
  [][\A s \in Sessions :
       (req[s].kind = "POST /api/register" /\ req[s].pc \notin {"idle", "done"}
          /\ req'[s] # req[s]
          /\ ~({"name", "email", "password"} \subseteq DOMAIN req[s].body)) =>
         /\ users' = users
         /\ currentUserId' = currentUserId
         /\ req'[s].pc = "done" => req'[s].status = 400]_vars

\* the PUT of session s passes its checks in this step and calls updateTask
AppliesPut(s) ==
  /\ req[s].pc = "put_check" /\ req'[s] # req[s]
  /\ req[s].found # <<>>
  /\ req[s].found[1].userId = req[s].user

\* C23: a PUT that passes its checks replaces, in one step, the record stored
\* at that moment by that record with every field of the body written over it,
\* whatever record the handler had looked up, and changes no other record; a
\* stored record changes in no other step.  Two concurrent PUTs on a task thus
\* leave the record the two merges give in the order of these two steps.
C23_ConcurrentPutsAreSequentialMerges ==
  [][/\ \A s \in Sessions :
          AppliesPut(s) =>
            LET id == parseInt(req[s].param).val
            IN  IF id \in DOMAIN tasks
                THEN /\ tasks' = [tasks EXCEPT ![id] = Merge(tasks[id], req[s].body)]
                     /\ req'[s].pc = "put_respond" /\ ~req'[s].err
                     /\ req'[s].result = <<tasks'[id]>>
                ELSE tasks' = tasks
     /\ \A k \in (DOMAIN tasks) \cap (DOMAIN tasks') :
          tasks'[k] # tasks[k] =>
            \E s \in Sessions : AppliesPut(s) /\ parseInt(req[s].param).val = k]_vars

\* two PUTs with different bodies on one task have both been applied before
\* either was answered, and the record holds what both wrote
C23_Witness ==
  \E s, t \in Sessions :
    /\ s # t
    /\ req[s].pc = "put_respond" /\ ~req[s].err
    /\ req[t].pc = "put_respond" /\ ~req[t].err
    /\ req[s].param = req[t].param
    /\ req[s].body # req[t].body
    /\ LET id == parseInt(req[s].param).val
       IN  /\ id \in DOMAIN tasks
           /\ \A k \in DOMAIN req[s].body : tasks[id][k] = req[s].body[k] \/ k \in DOMAIN req[t].body
           /\ \A k \in DOMAIN req[t].body : tasks[id][k] = req[t].body[k] \/ k \in DOMAIN req[s].body

\* a decimal integer string
AllDigits(p) == p # <<>> /\ \A i \in DOMAIN p : IsDigit(p[i])

\* C24 as stated: a GET, PUT or DELETE by id of an authenticated user whose id
\* parameter is not a decimal integer string is answered 400 without a lookup.
C24_NonNumericId400 ==
  [][\A s \in Sessions :
       (Starts(s) /\ req'[s].kind \in ByIdKinds /\ session[s] # 0
          /\ ~AllDigits(req'[s].param)) =>
         /\ Refused(req'[s], {400})
         /\ req'[s].found = <<>>
         /\ tasks' = tasks]_vars

\* C25 as stated: a PUT whose updateTask failed because the id was absent is
\* answered 404.
C25_FailedUpdate404 ==
  [][\A s \in Sessions :
       (req[s].pc = "put_respond" /\ req[s].err /\ req'[s] # req[s]) =>
         req'[s].pc = "done" /\ req'[s].status = 404]_vars

\* the elements of seq at the positions in idx, in the order of seq
RECURSIVE Picked(_, _)
Picked(seq, idx) ==
  IF seq = <<>> THEN <<>>
  ELSE LET rest == Picked(Tail(seq), { i - 1 : i \in idx \ {1} })
       IN  IF 1 \in idx THEN <<Head(seq)>> \o rest ELSE rest

\* C26: the list a home page shows is empty while its query has no data, is
\* the fetched list when the filter is "all", and otherwise consists of the
\* fetched tasks whose status is the filter, in the order they were fetched.
C26_ShownIsFilteredFetch ==
  \A s \in Sessions :
    LET h == home[s]
    IN  /\ h.data = <<>> => h.shown = <<>>
        /\ (h.data # <<>> /\ h.filterStatus = "all") => h.shown = h.data[1]
        /\ (h.data # <<>> /\ h.filterStatus # "all") =>
             h.shown = Picked(h.data[1],
                 { i \in DOMAIN h.data[1] :
                     /\ "status" \in DOMAIN h.data[1][i]
                     /\ h.data[1][i].status = h.filterStatus })

\* two tasks are fetched, the filter is "pending" and only the second is shown
C26_Witness ==
  \E s \in Sessions :
    /\ home[s].data # <<>> /\ Len(home[s].data[1]) = 2
    /\ home[s].filterStatus = "pending"
    /\ Len(home[s].shown) = 1
    /\ home[s].shown[1] = home[s].data[1][2]

\* the PUT a status toggle sends: its body is a whole task, so carries an id
IsToggle(r) == r.kind = "PUT /api/tasks/:id" /\ "id" \in DOMAIN r.body

\* C27 as stated: when the PUT of a status toggle is applied, the title and the
\* description the task has in the store at that moment are left as they are.
C27_ToggleKeepsTitle ==
  [][\A s \in Sessions :
       (AppliesPut(s) /\ IsToggle(req[s]) /\ parseInt(req[s].param).val \in DOMAIN tasks) =>
         LET id == parseInt(req[s].param).val
         IN  /\ id \in DOMAIN tasks'
             /\ \A k \in {"title", "description"} :
                  /\ k \in DOMAIN tasks[id] <=> k \in DOMAIN tasks'[id]
                  /\ k \in DOMAIN tasks[id] => tasks'[id][k] = tasks[id][k]]_vars

\* C28 as stated: every stored record is held under the key equal to its id field.
C28_KeyIsId ==
  \A k \in DOMAIN tasks : tasks[k].id = k

\* the DELETE of session s passes its checks in this step and calls deleteTask
AppliesDelete(s) ==
  /\ req[s].pc = "delete_check" /\ req'[s] # req[s]
  /\ req[s].found # <<>>
  /\ req[s].found[1].userId = req[s].user

\* C29: the step in which a PUT updates the task stored under an id leaves the
\* set of stored ids and every record under another id unchanged; the step in
\* which a DELETE deletes an id takes exactly that id out of the set and leaves
\* every remaining record unchanged; both, and the steps that answer them,
\* leave the users and the two id counters unchanged.
C29_OtherRecordsUntouched ==
  [][\A s \in Sessions :
       LET id == parseInt(req[s].param).val
       IN  /\ (AppliesPut(s) /\ id \in DOMAIN tasks) =>
                /\ DOMAIN tasks' = DOMAIN tasks
                /\ \A k \in DOMAIN tasks \ {id} : tasks'[k] = tasks[k]
                /\ UNCHANGED <<users, currentUserId, currentTaskId>>
           /\ AppliesDelete(s) =>
                /\ DOMAIN tasks' = DOMAIN tasks \ {id}
                /\ \A k \in DOMAIN tasks' : tasks'[k] = tasks[k]
                /\ UNCHANGED <<users, currentUserId, currentTaskId>>
           /\ (req[s].pc \in {"put_respond", "delete_respond"} /\ req'[s] # req[s]) =>
                UNCHANGED <<tasks, users, currentUserId, currentTaskId>>]_vars

\* task 1 was updated with 200 and then deleted with 204, and task 2 is stored
C29_Witness ==
  \E s, t \in Sessions :
    /\ s # t
    /\ req[s].pc = "done" /\ req[s].kind = "DELETE /api/tasks/:id" /\ req[s].status = 204
    /\ req[t].pc = "done" /\ req[t].kind = "PUT /api/tasks/:id" /\ req[t].status = 200
    /\ DOMAIN tasks = {2}

\* C30: the step that ends a registration with 201 binds the session to the
\* user the registration created, and no other step of these routes changes a
\* session; a GET /api/user received on a session bound to a user is answered
\* 200 with that user's record, and a task created by a POST /api/tasks
\* received on it is owned by that user.
C30_RegisterLogsIn ==
  [][\A s \in Sessions :
       /\ (req[s].pc = "register_login" /\ req'[s] # req[s]) =>
            /\ req'[s].pc = "done" /\ req'[s].status = 201
            /\ session'[s] \in DOMAIN users
            /\ session'[s] = req'[s].out[1].id
            /\ users[session'[s]] = req'[s].out[1]
            /\ users[session'[s]].email = req[s].body.email
       /\ session'[s] # session[s] => req[s].pc = "register_login"
       /\ (Starts(s) /\ req'[s].kind = "GET /api/user" /\ session[s] # 0) =>
            /\ req'[s].pc = "done" /\ req'[s].status = 200
            /\ req'[s].out = <<users[session[s]]>>
       /\ (Starts(s) /\ req'[s].kind = "POST /api/tasks" /\ session[s] # 0
             /\ "title" \in DOMAIN req'[s].body) =>
            /\ req'[s].pc = "post_respond"
            /\ DOMAIN tasks' = DOMAIN tasks \cup {currentTaskId}
            /\ tasks'[currentTaskId].userId = session[s]]_vars

\* on a session that registered, GET /api/user was answered with the new user,
\* who owns a stored task
C30_Witness ==
  \E s \in Sessions :
    /\ session[s] # 0
    /\ req[s].pc = "done" /\ req[s].kind = "GET /api/user" /\ req[s].status = 200
    /\ req[s].out = <<users[session[s]]>>
    /\ \E k \in DOMAIN tasks : tasks[k].userId = session[s]

====
